---- MODULE Spec2Model ----
(***************************************************************************)
(* A model of jstat (src/src/core.js): factorial and gamma, combination    *)
(* and permutation, the discrete pmf/cdf pairs built on them, uniformcdf,  *)
(* sumFunc and mode.                                                       *)
(*                                                                         *)
(* JavaScript numbers are modelled in exact arithmetic.  A value is one of *)
(*   [k |-> "num", n, d, e]   the real (n/d) * exp(-e), n/d in lowest      *)
(*                            terms, d > 0, and e = 0 whenever n = 0       *)
(*   [k |-> "nan"]            NaN                                          *)
(*   [k |-> "inf", s]         +Infinity (s = 1) or -Infinity (s = -1)      *)
(*   [k |-> "false"]          the boolean false                            *)
(*   [k |-> "undefined"]      undefined                                    *)
(*   [k |-> "series", x, v]   the value of gamma's asymptotic series, kept *)
(*                            symbolically by the x and v it is taken at   *)
(*   [k |-> "real"]           a finite real the model does not track       *)
(* exp(-1) is transcendental, so two values (n/d) * exp(-e) are equal      *)
(* exactly when their records are.                                         *)
(***************************************************************************)
EXTENDS Integers, Sequences, FiniteSets, TLC

VARIABLES
    fn,         \* the library function under call, "none" between calls
    args,       \* its arguments
    out,        \* its return value, Undefined while the call runs
    pc,         \* control position of the call
    stack,      \* the functions entered by the call, in order
    f_n,        \* factorial: n
    f_fval,     \* factorial: fval
    g_x,        \* gamma: x
    g_v,        \* gamma: v
    factIters,  \* number of times factorial's loop body ran
    gammaIters  \* number of times gamma's loop body ran

vars == <<fn, args, out, pc, stack, f_n, f_fval, g_x, g_v, factIters, gammaIters>>

----------------------------------------------------------------------------
(* Bounds of the model *)

MaxN == 4
MaxR == 3
MaxX == 4
MinX == 2
PDen == 4
QDen == 2
MaxRate == 3
MaxLen == 6
MaxVal == 3
ArgDen == 2
ArgNumMax == 20
ArgNumMin == 5

(* Constants of the program *)

GammaThreshold == 8

----------------------------------------------------------------------------
(* JavaScript number arithmetic, exact *)

Abs(i) == IF i < 0 THEN -i ELSE i

\* Euclid's algorithm; the remainder is bound as a value before the next round
RECURSIVE Gcd(_, _)
Gcd(i, j) ==
    IF j = 0 THEN Abs(i)
    ELSE CHOOSE g \in {Gcd(j, r) : r \in {i % Abs(j)}} : TRUE

NaN == [k |-> "nan"]
FalseV == [k |-> "false"]
Undefined == [k |-> "undefined"]
Untracked == [k |-> "real"]
Inf(s) == [k |-> "inf", s |-> s]

NumE(n, d, e) ==
    LET g == Gcd(n, d)
        s == IF d < 0 THEN -1 ELSE 1
    IN  IF n = 0 THEN [k |-> "num", n |-> 0, d |-> 1, e |-> 0]
        ELSE [k |-> "num", n |-> s * (n \div g), d |-> s * (d \div g), e |-> e]

Rat(n, d) == NumE(n, d, 0)
IntV(i) == NumE(i, 1, 0)
Zero == IntV(0)
One == IntV(1)

IsRational(a) == a.k = "num" /\ a.e = 0
IsInteger(a) == a.k = "num" /\ a.e = 0 /\ a.d = 1
Sign(a) == IF a.k = "inf" THEN a.s ELSE IF a.n > 0 THEN 1 ELSE IF a.n < 0 THEN -1 ELSE 0

\* ToNumber: what an arithmetic operator makes of its operand
ToNumber(a) ==
    IF a.k = "false" THEN Zero
    ELSE IF a.k = "undefined" THEN NaN
    ELSE a

Neg(a0) ==
    LET a == ToNumber(a0)
    IN  IF a.k = "num" THEN NumE(-a.n, a.d, a.e)
        ELSE IF a.k = "inf" THEN Inf(-a.s)
        ELSE IF a.k = "nan" THEN NaN
        ELSE Untracked

Add(a0, b0) ==
    LET a == ToNumber(a0)
        b == ToNumber(b0)
    IN  IF a.k = "nan" \/ b.k = "nan" THEN NaN
        ELSE IF a.k = "inf" /\ b.k = "inf" THEN (IF a.s = b.s THEN a ELSE NaN)
        ELSE IF a.k = "inf" THEN a
        ELSE IF b.k = "inf" THEN b
        ELSE IF a.k = "num" /\ b.k = "num" THEN
            IF a.n = 0 THEN b
            ELSE IF b.n = 0 THEN a
            ELSE IF a.e = b.e THEN
                LET l == (a.d \div Gcd(a.d, b.d)) * b.d
                IN  NumE(a.n * (l \div a.d) + b.n * (l \div b.d), l, a.e)
            ELSE Untracked
        ELSE Untracked

Sub(a, b) == Add(a, Neg(b))

Mul(a0, b0) ==
    LET a == ToNumber(a0)
        b == ToNumber(b0)
    IN  IF a.k = "nan" \/ b.k = "nan" THEN NaN
        ELSE IF a.k = "inf" \/ b.k = "inf" THEN
            IF a.k \in {"num", "inf"} /\ b.k \in {"num", "inf"}
            THEN (IF Sign(a) * Sign(b) = 0 THEN NaN ELSE Inf(Sign(a) * Sign(b)))
            ELSE Untracked
        ELSE IF a.k = "num" /\ b.k = "num" THEN
            LET g1 == Gcd(a.n, b.d)
                g2 == Gcd(b.n, a.d)
            IN  IF a.n = 0 \/ b.n = 0 THEN Zero
                ELSE NumE((a.n \div g1) * (b.n \div g2),
                          (a.d \div g2) * (b.d \div g1), a.e + b.e)
        ELSE Untracked

Div(a0, b0) ==
    LET a == ToNumber(a0)
        b == ToNumber(b0)
    IN  IF a.k = "nan" \/ b.k = "nan" THEN NaN
        ELSE IF a.k = "inf" /\ b.k = "inf" THEN NaN
        ELSE IF a.k = "inf" THEN
            (IF b.k = "num" THEN Inf(IF b.n < 0 THEN -a.s ELSE a.s) ELSE Untracked)
        ELSE IF b.k = "inf" THEN (IF a.k = "num" THEN Zero ELSE Untracked)
        ELSE IF a.k = "num" /\ b.k = "num" THEN
            IF b.n = 0 THEN (IF a.n = 0 THEN NaN ELSE Inf(Sign(a)))
            ELSE Mul(a, NumE(b.d, b.n, -b.e))
        ELSE Untracked

\* a < b.  The program compares only arguments and loop counters, which are
\* rationals; a comparison with NaN is false.
Lt(a0, b0) ==
    LET a == ToNumber(a0)
        b == ToNumber(b0)
    IN  IF a.k = "num" /\ b.k = "num" THEN
            LET l == (a.d \div Gcd(a.d, b.d)) * b.d
            IN  a.n * (l \div a.d) < b.n * (l \div b.d)
        ELSE IF a.k = "inf" /\ b.k = "num" THEN a.s < 0
        ELSE IF a.k = "num" /\ b.k = "inf" THEN b.s > 0
        ELSE IF a.k = "inf" /\ b.k = "inf" THEN a.s < b.s
        ELSE FALSE

\* a == b (and a != b is ~LooseEq): NaN equals nothing, itself included
LooseEq(a0, b0) ==
    LET a == ToNumber(a0)
        b == ToNumber(b0)
    IN  IF a.k = "nan" \/ b.k = "nan" THEN FALSE ELSE a = b

\* a <= b
Le(a, b) == Lt(a, b) \/ LooseEq(a, b)

\* Math.floor
Floor(a0) ==
    LET a == ToNumber(a0)
    IN  IF a.k = "num" THEN (IF a.e = 0 THEN IntV(a.n \div a.d) ELSE Untracked)
        ELSE a

\* Math.pow(b, x): exact for an integer exponent; pow(b, 0) is 1 for every b
RECURSIVE PowNat(_, _)
PowNat(b, i) == IF i = 0 THEN One ELSE Mul(b, PowNat(b, i - 1))

Pow(b, x0) ==
    LET x == ToNumber(x0)
    IN  IF x.k = "num" /\ x.n = 0 THEN One
        ELSE IF x.k = "nan" \/ ToNumber(b).k = "nan" THEN NaN
        ELSE IF IsInteger(x) THEN
            (IF x.n > 0 THEN PowNat(b, x.n) ELSE Div(One, PowNat(b, -x.n)))
        ELSE Untracked

\* Math.exp(a): exact for an integer a, as a power of exp(-1)
Exp(a0) ==
    LET a == ToNumber(a0)
    IN  IF a.k = "nan" THEN NaN
        ELSE IF IsInteger(a) THEN NumE(1, 1, -a.n)
        ELSE Untracked

----------------------------------------------------------------------------
(* SpecialFunctions and Combinatorics, as functions of their arguments *)

Eight == IntV(GammaThreshold)

\* line 247: the series is evaluated at the shifted x and the accumulated v;
\* every operation in it propagates NaN
GammaSeries(x, v) ==
    IF IsRational(x) /\ IsRational(v) THEN [k |-> "series", x |-> x, v |-> v]
    ELSE IF x.k = "nan" \/ v.k = "nan" THEN NaN
    ELSE Untracked

\* lines 242-245: while (x < 8) { v *= x; x++ }
RECURSIVE GammaShift(_, _)
GammaShift(x, v) ==
    IF Lt(x, Eight) THEN GammaShift(Add(x, One), Mul(v, x))
    ELSE GammaSeries(x, v)

\* lines 203-206: for (; n > 0; n--) fval *= n; return fval
RECURSIVE FactLoop(_, _)
FactLoop(n, fval) ==
    IF Lt(Zero, n) THEN FactLoop(Sub(n, One), Mul(fval, n))
    ELSE fval

RECURSIVE factorial(_), gamma(_)
factorial(n) ==
    IF Lt(n, Zero) THEN NaN
    ELSE IF ~LooseEq(n, Floor(n)) THEN gamma(Add(n, One))
    ELSE FactLoop(n, One)

gamma(x) ==
    IF LooseEq(x, Floor(x)) THEN factorial(Sub(x, One))
    ELSE GammaShift(x, One)

\* faulty variant: the division by factorial(n - k) is left out
combination_NoSecondDivision(n, k) == Div(factorial(n), factorial(k))

combination(n, k) == Div(Div(factorial(n), factorial(k)), factorial(Sub(n, k)))

permutation(n, r) == Div(factorial(n), factorial(Sub(n, r)))

----------------------------------------------------------------------------
(* RangeSum *)

\* while (a <= b) { sum += func(a); a++ }, the callback func held as a
\* function of its argument
RECURSIVE SumFuncLoop(_, _, _, _)
SumFuncLoop(func, a, b, sum) ==
    IF Le(a, b) THEN SumFuncLoop(func, Add(a, One), b, Add(sum, func[a]))
    ELSE sum

sumFunc(func, a, b) == SumFuncLoop(func, a, b, Zero)

----------------------------------------------------------------------------
(* DistributionEngine *)

\* faulty variant: the upper test is x <= b
uniformcdf_InclusiveUpper(a, b, x) ==
    IF Lt(x, a) THEN Zero
    ELSE IF Le(x, b) THEN Div(Sub(x, a), Sub(b, a))
    ELSE One

uniformcdf(a, b, x) ==
    IF Lt(x, a) THEN Zero
    ELSE IF Lt(x, b) THEN Div(Sub(x, a), Sub(b, a))
    ELSE One

\* the number of divisions uniformcdf performs
uniformcdfDivisions(a, b, x) ==
    IF Lt(x, a) THEN 0
    ELSE IF Lt(x, b) THEN 1
    ELSE 0

binomial(n, p, k) ==
    Mul(Mul(combination(n, k), Pow(p, k)), Pow(Sub(One, p), Sub(n, k)))

\* element i of an array held as a sequence; a missing element is undefined
At(arr, i) ==
    IF IsInteger(i) /\ i.n >= 0 /\ i.n < Len(arr) THEN arr[i.n + 1] ELSE Undefined

\* lines 343-345: for (; k < n; k++) binomarr[k] = binomial(n, p, k)
RECURSIVE BinomarrLoop(_, _, _, _)
BinomarrLoop(n, p, k, binomarr) ==
    IF Lt(k, n) THEN BinomarrLoop(n, p, Add(k, One), Append(binomarr, binomial(n, p, k)))
    ELSE binomarr

\* faulty variant: the loop test is i < x
RECURSIVE BinomSumLoop_ExclusiveBound(_, _, _, _)
BinomSumLoop_ExclusiveBound(binomarr, x, i, sum) ==
    IF Lt(i, x)
    THEN BinomSumLoop_ExclusiveBound(binomarr, x, Add(i, One), Add(sum, At(binomarr, i)))
    ELSE sum

\* lines 347-350: for (; i <= x; i++) sum += binomarr[i]; return sum
RECURSIVE BinomSumLoop(_, _, _, _)
BinomSumLoop(binomarr, x, i, sum) ==
    IF Le(i, x) THEN BinomSumLoop(binomarr, x, Add(i, One), Add(sum, At(binomarr, i)))
    ELSE sum

binomialcdf(n, p, x) ==
    IF Lt(x, Zero) THEN Zero
    ELSE LET binomarr == BinomarrLoop(n, p, Zero, <<>>)
         IN  IF Lt(x, n) THEN BinomSumLoop(binomarr, x, Zero, Zero)
             ELSE One

\* faulty variant: the x < 0 test is made before the integer test
negbin_SignTestFirst(r, p, x) ==
    IF Lt(x, Zero) THEN Zero
    ELSE IF ~LooseEq(x, Floor(x)) THEN FalseV
    ELSE Mul(Mul(combination(Sub(Add(x, r), One), Sub(r, One)), Pow(p, r)),
             Pow(Sub(One, p), x))

negbin(r, p, x) ==
    IF ~LooseEq(x, Floor(x)) THEN FalseV
    ELSE IF Lt(x, Zero) THEN Zero
    ELSE Mul(Mul(combination(Sub(Add(x, r), One), Sub(r, One)), Pow(p, r)),
             Pow(Sub(One, p), x))

\* the number of calls of combination negbin makes
negbinCombinations(r, p, x) ==
    IF ~LooseEq(x, Floor(x)) THEN 0
    ELSE IF Lt(x, Zero) THEN 0
    ELSE 1

\* faulty variant: the loop test is k < x
RECURSIVE NegbinSumLoop_ExclusiveBound(_, _, _, _, _)
NegbinSumLoop_ExclusiveBound(n, p, x, k, sum) ==
    IF Lt(k, x)
    THEN NegbinSumLoop_ExclusiveBound(n, p, x, Add(k, One), Add(sum, negbin(n, p, k)))
    ELSE sum

\* lines 389-392: for (; k <= x; k++) sum += negbin(n, p, k); return sum
RECURSIVE NegbinSumLoop(_, _, _, _, _)
NegbinSumLoop(n, p, x, k, sum) ==
    IF Le(k, x) THEN NegbinSumLoop(n, p, x, Add(k, One), Add(sum, negbin(n, p, k)))
    ELSE sum

negbincdf(n, p, x) ==
    IF Lt(x, Zero) THEN Zero
    ELSE NegbinSumLoop(n, p, x, Zero, Zero)

hypgeom(N, m, n, x) ==
    IF ~LooseEq(x, Floor(x)) THEN FalseV
    ELSE IF Lt(x, Zero) THEN Zero
    ELSE Div(Mul(combination(m, x), combination(Sub(N, m), Sub(n, x))),
             combination(N, n))

\* the number of calls of combination hypgeom makes
hypgeomCombinations(N, m, n, x) ==
    IF ~LooseEq(x, Floor(x)) THEN 0
    ELSE IF Lt(x, Zero) THEN 0
    ELSE 3

\* lines 425-428: for (; k <= x; k++) sum += hypgeom(N, m, n, k); return sum
RECURSIVE HypgeomSumLoop(_, _, _, _, _, _)
HypgeomSumLoop(N, m, n, x, k, sum) ==
    IF Le(k, x) THEN HypgeomSumLoop(N, m, n, x, Add(k, One), Add(sum, hypgeom(N, m, n, k)))
    ELSE sum

hypgeomcdf(N, m, n, x) ==
    IF Lt(x, Zero) THEN Zero
    ELSE HypgeomSumLoop(N, m, n, x, Zero, Zero)

poisson(l, x) == Div(Mul(Pow(l, x), Exp(Neg(l))), factorial(x))

\* lines 469-472: for (; k <= x; k++) sum += poisson(l, k); return sum
RECURSIVE PoissonSumLoop(_, _, _, _)
PoissonSumLoop(l, x, k, sum) ==
    IF Le(k, x) THEN PoissonSumLoop(l, x, Add(k, One), Add(sum, poisson(l, k)))
    ELSE sum

poissoncdf(l, x) ==
    IF Lt(x, Zero) THEN Zero
    ELSE PoissonSumLoop(l, x, Zero, Zero)

----------------------------------------------------------------------------
(* mode *)

\* arr.slice().sort(arrSortF) with arrSortF(a, b) = a - b: ascending order
RECURSIVE Insert(_, _)
Insert(sorted, e) ==
    IF sorted = <<>> THEN <<e>>
    ELSE IF e - Head(sorted) < 0 THEN <<e>> \o sorted
    ELSE <<Head(sorted)>> \o Insert(Tail(sorted), e)

RECURSIVE SortAsc(_)
SortAsc(arr) == IF arr = <<>> THEN <<>> ELSE Insert(SortAsc(Tail(arr)), Head(arr))

\* _arr[i] === _arr[i + 1], i counted from 0; past the end the element is
\* undefined and equals no number
SameAsNext(sarr, i) == i + 2 <= Len(sarr) /\ sarr[i + 1] = sarr[i + 2]

\* lines 95-112: one pass of the loop body
ModeBody(sarr, i, st) ==
    IF SameAsNext(sarr, i) THEN [st EXCEPT !.count = st.count + 1]
    ELSE IF st.count > st.maxCount
        THEN [count |-> 1, maxCount |-> st.count, numMaxCount |-> 0,
              maxNum |-> IntV(sarr[i + 1])]
    ELSE IF st.count = st.maxCount
        THEN [st EXCEPT !.numMaxCount = st.numMaxCount + 1]
    ELSE [st EXCEPT !.count = 1]

\* line 94: for (; i < arrLen; i++)
RECURSIVE ModeLoop(_, _, _)
ModeLoop(sarr, i, st) ==
    IF i < Len(sarr) THEN ModeLoop(sarr, i + 1, ModeBody(sarr, i, st))
    ELSE st

mode(arr) ==
    LET st == ModeLoop(SortAsc(arr), 0,
                       [count |-> 1, maxCount |-> 0, numMaxCount |-> 0,
                        maxNum |-> Undefined])
    IN  IF st.numMaxCount = 0 THEN st.maxNum ELSE FalseV

----------------------------------------------------------------------------
(* Arguments the calls are made with *)

Counts == {IntV(i) : i \in 0..MaxN}
SmallInts == {IntV(i) : i \in -1..MaxN}
Failures == {IntV(i) : i \in 0..MaxR}
Rates == {IntV(i) : i \in 0..MaxRate}
Probs == {Rat(i, PDen) : i \in -1..(PDen + 1)}
IntQueries == {IntV(i) : i \in -MinX..MaxX}
Queries == {Rat(i * QDen + f, QDen) : i \in -MinX..MaxX, f \in 0..(QDen - 1)}
FArgs == {Rat(j, ArgDen) : j \in -ArgNumMin..ArgNumMax}

RECURSIVE SeqsUpTo(_, _)
SeqsUpTo(S, len) ==
    IF len = 0 THEN {<<>>}
    ELSE LET shorter == SeqsUpTo(S, len - 1)
         IN  shorter \cup {Append(q, e) : q \in {t \in shorter : Len(t) = len - 1}, e \in S}

Arrays == SeqsUpTo(1..MaxVal, MaxLen)

----------------------------------------------------------------------------
(* The library as a state machine: one call at a time, no state kept
   between calls *)

Init ==
    /\ fn = "none"
    /\ args = <<>>
    /\ out = Undefined
    /\ pc = "idle"
    /\ stack = <<>>
    /\ f_n = Undefined
    /\ f_fval = Undefined
    /\ g_x = Undefined
    /\ g_v = Undefined
    /\ factIters = 0
    /\ gammaIters = 0

locals == <<stack, f_n, f_fval, g_x, g_v, factIters, gammaIters>>

\* a call taken in one step, from its entry to its return
Complete(name, actuals, result) ==
    /\ fn' = name
    /\ args' = actuals
    /\ out' = result
    /\ pc' = "done"
    /\ UNCHANGED locals

CallCombination ==
    \E n \in SmallInts, k \in SmallInts :
        /\ fn = "none"
        /\ Complete("combination", <<n, k>>, combination(n, k))

CallPermutation ==
    \E n \in SmallInts, r \in SmallInts :
        /\ fn = "none"
        /\ Complete("permutation", <<n, r>>, permutation(n, r))

CallUniformcdf ==
    \E a \in IntQueries, b \in IntQueries, x \in Queries :
        /\ fn = "none"
        /\ Complete("uniformcdf", <<a, b, x>>, uniformcdf(a, b, x))

CallBinomial ==
    \E n \in Counts, p \in Probs, k \in IntQueries :
        /\ fn = "none"
        /\ Complete("binomial", <<n, p, k>>, binomial(n, p, k))

CallBinomialcdf ==
    \E n \in Counts, p \in Probs, x \in Queries :
        /\ fn = "none"
        /\ Complete("binomialcdf", <<n, p, x>>, binomialcdf(n, p, x))

CallNegbin ==
    \E r \in Failures, p \in Probs, x \in Queries :
        /\ fn = "none"
        /\ Complete("negbin", <<r, p, x>>, negbin(r, p, x))

CallNegbincdf ==
    \E n \in Failures, p \in Probs, x \in Queries :
        /\ fn = "none"
        /\ Complete("negbincdf", <<n, p, x>>, negbincdf(n, p, x))

CallHypgeom ==
    \E N \in Counts, m \in Counts, n \in Counts, x \in Queries :
        /\ fn = "none"
        /\ Complete("hypgeom", <<N, m, n, x>>, hypgeom(N, m, n, x))

CallHypgeomcdf ==
    \E N \in Counts, m \in Counts, n \in Counts, x \in Queries :
        /\ fn = "none"
        /\ Complete("hypgeomcdf", <<N, m, n, x>>, hypgeomcdf(N, m, n, x))

CallPoisson ==
    \E l \in Rates, x \in IntQueries :
        /\ fn = "none"
        /\ Complete("poisson", <<l, x>>, poisson(l, x))

CallPoissoncdf ==
    \E l \in Rates, x \in Queries :
        /\ fn = "none"
        /\ Complete("poissoncdf", <<l, x>>, poissoncdf(l, x))

CallMode ==
    \E arr \in Arrays :
        /\ fn = "none"
        /\ Complete("mode", <<arr>>, mode(arr))

(* factorial and gamma, statement by statement *)

\* lines 199-200: entry of factorial(a), var fval = 1
EnterFactorial(a) ==
    /\ stack' = Append(stack, "factorial")
    /\ f_n' = a
    /\ f_fval' = One
    /\ pc' = "fact_check"
    /\ UNCHANGED <<g_x, g_v, factIters, gammaIters>>

\* lines 238-239: entry of gamma(a), var v = 1
EnterGamma(a) ==
    /\ stack' = Append(stack, "gamma")
    /\ g_x' = a
    /\ g_v' = One
    /\ pc' = "gamma_check"
    /\ UNCHANGED <<f_n, f_fval, factIters, gammaIters>>

\* a return statement; the callers return the callee's value as their own
Return(val) ==
    /\ out' = val
    /\ pc' = "done"
    /\ UNCHANGED <<fn, args, locals>>

CallFactorial ==
    \E a \in FArgs :
        /\ fn = "none"
        /\ fn' = "factorial"
        /\ args' = <<a>>
        /\ out' = Undefined
        /\ EnterFactorial(a)

CallGamma ==
    \E a \in FArgs :
        /\ fn = "none"
        /\ fn' = "gamma"
        /\ args' = <<a>>
        /\ out' = Undefined
        /\ EnterGamma(a)

\* lines 201-202
FactCheck ==
    /\ pc = "fact_check"
    /\ IF Lt(f_n, Zero) THEN Return(NaN)
       ELSE IF ~LooseEq(f_n, Floor(f_n))
           THEN EnterGamma(Add(f_n, One)) /\ UNCHANGED <<fn, args, out>>
       ELSE pc' = "fact_loop" /\ UNCHANGED <<fn, args, out, locals>>

\* faulty variant: n is decremented before the multiplication
FactLoopStep_DecrementFirst ==
    /\ pc = "fact_loop"
    /\ IF Lt(Zero, f_n)
       THEN /\ f_fval' = Mul(f_fval, Sub(f_n, One))
            /\ f_n' = Sub(f_n, One)
            /\ factIters' = factIters + 1
            /\ UNCHANGED <<fn, args, out, pc, stack, g_x, g_v, gammaIters>>
       ELSE Return(f_fval)

\* lines 203-206
FactLoopStep ==
    /\ pc = "fact_loop"
    /\ IF Lt(Zero, f_n)
       THEN /\ f_fval' = Mul(f_fval, f_n)
            /\ f_n' = Sub(f_n, One)
            /\ factIters' = factIters + 1
            /\ UNCHANGED <<fn, args, out, pc, stack, g_x, g_v, gammaIters>>
       ELSE Return(f_fval)

\* faulty variant: the integer shortcut calls factorial(x)
GammaCheck_NoShift ==
    /\ pc = "gamma_check"
    /\ IF LooseEq(g_x, Floor(g_x))
       THEN EnterFactorial(g_x) /\ UNCHANGED <<fn, args, out>>
       ELSE pc' = "gamma_loop" /\ UNCHANGED <<fn, args, out, locals>>

\* line 241
GammaCheck ==
    /\ pc = "gamma_check"
    /\ IF LooseEq(g_x, Floor(g_x))
       THEN EnterFactorial(Sub(g_x, One)) /\ UNCHANGED <<fn, args, out>>
       ELSE pc' = "gamma_loop" /\ UNCHANGED <<fn, args, out, locals>>

\* faulty variant: the loop test is x < 9
GammaLoopStep_Threshold9 ==
    /\ pc = "gamma_loop"
    /\ IF Lt(g_x, IntV(GammaThreshold + 1))
       THEN /\ g_v' = Mul(g_v, g_x)
            /\ g_x' = Add(g_x, One)
            /\ gammaIters' = gammaIters + 1
            /\ UNCHANGED <<fn, args, out, pc, stack, f_n, f_fval, factIters>>
       ELSE pc' = "gamma_series" /\ UNCHANGED <<fn, args, out, locals>>

\* lines 242-245
GammaLoopStep ==
    /\ pc = "gamma_loop"
    /\ IF Lt(g_x, Eight)
       THEN /\ g_v' = Mul(g_v, g_x)
            /\ g_x' = Add(g_x, One)
            /\ gammaIters' = gammaIters + 1
            /\ UNCHANGED <<fn, args, out, pc, stack, f_n, f_fval, factIters>>
       ELSE pc' = "gamma_series" /\ UNCHANGED <<fn, args, out, locals>>

\* lines 246-247
GammaSeriesStep ==
    /\ pc = "gamma_series"
    /\ Return(GammaSeries(g_x, g_v))

\* the call is over; nothing of it is kept
Finish ==
    /\ pc = "done"
    /\ fn' = "none"
    /\ args' = <<>>
    /\ out' = Undefined
    /\ pc' = "idle"
    /\ stack' = <<>>
    /\ f_n' = Undefined
    /\ f_fval' = Undefined
    /\ g_x' = Undefined
    /\ g_v' = Undefined
    /\ factIters' = 0
    /\ gammaIters' = 0

Step == FactCheck \/ FactLoopStep \/ GammaCheck \/ GammaLoopStep \/ GammaSeriesStep

Next ==
    \/ CallHypgeomcdf
    \/ CallHypgeom
    \/ CallCombination
    \/ CallPermutation
    \/ CallUniformcdf
    \/ CallBinomial
    \/ CallBinomialcdf
    \/ CallNegbin
    \/ CallNegbincdf
    \/ CallPoisson
    \/ CallPoissoncdf
    \/ CallMode
    \/ CallFactorial
    \/ CallGamma
    \/ FactCheck
    \/ FactLoopStep
    \/ GammaCheck
    \/ GammaLoopStep
    \/ GammaSeriesStep
    \/ Finish

Spec == Init /\ [][Next]_vars

\* the calls of factorial and gamma alone
FactorialGammaNext ==
    \/ CallFactorial
    \/ CallGamma
    \/ FactCheck
    \/ FactLoopStep
    \/ GammaCheck
    \/ GammaLoopStep
    \/ GammaSeriesStep
    \/ Finish

\* a call runs to completion: JavaScript never abandons a running function
FairSpec == Init /\ [][FactorialGammaNext]_vars /\ WF_vars(Step)

----------------------------------------------------------------------------
(* Properties *)

Returned(name) == fn = name /\ pc = "done"

InUnitInterval(a) == IsRational(a) /\ Le(Zero, a) /\ Le(a, One)

\* Math.ceil of a rational
Ceil(a) == Neg(Floor(Neg(a)))

(* C1: for integer n >= 0, p in [0,1] and integer x with 0 <= x <= n,
   binomialcdf(n, p, x) is the sum of binomial(n, p, k) over k = 0..x, and
   binomialcdf(n, p, n) is 1. *)
C1_Case ==
    /\ Returned("binomialcdf")
    /\ InUnitInterval(args[2])
    /\ IsInteger(args[3])
    /\ Le(Zero, args[3])
    /\ Le(args[3], args[1])

\* the sum of binomial(n, p, k) over k = 0..hi
RECURSIVE C1_PmfSum(_)
C1_PmfSum(hi) ==
    IF hi < 0 THEN Zero
    ELSE Add(C1_PmfSum(hi - 1), binomial(args[1], args[2], IntV(hi)))

C1_BinomialcdfIsPmfSum ==
    C1_Case =>
        /\ out = C1_PmfSum(args[3].n)
        /\ (args[3] = args[1] => out = One)

C1_Witness ==
    /\ C1_Case
    /\ Lt(Zero, args[3])
    /\ Lt(args[3], args[1])
    /\ Lt(Zero, out)
    /\ Lt(out, One)

(* C2: negbincdf, hypgeomcdf and poissoncdf return sumFunc(pmf, 0, x) for
   every real x: 0 when x < 0, otherwise the sum of the pmf over the integers
   0..floor(x), at none of which the pmf answers false. *)
C2_Pmf(k) ==
    IF fn = "negbincdf" THEN negbin(args[1], args[2], k)
    ELSE IF fn = "hypgeomcdf" THEN hypgeom(args[1], args[2], args[3], k)
    ELSE poisson(args[1], k)

C2_Query == args[Len(args)]

C2_Case == pc = "done" /\ fn \in {"negbincdf", "hypgeomcdf", "poissoncdf"}

\* the sum of the pmf over k = 0..hi, zero when hi < 0
RECURSIVE C2_PmfSum(_)
C2_PmfSum(hi) == IF hi < 0 THEN Zero ELSE Add(C2_PmfSum(hi - 1), C2_Pmf(IntV(hi)))

\* the callback k -> pmf(k) handed to sumFunc
C2_Callback == [k \in {IntV(i) : i \in 0..(MaxX + 1)} |-> C2_Pmf(k)]

C2_CdfIsSumFunc ==
    C2_Case =>
        /\ out = sumFunc(C2_Callback, Zero, C2_Query)
        /\ (Lt(C2_Query, Zero) => out = Zero)
        /\ (~Lt(C2_Query, Zero) =>
                /\ out = C2_PmfSum(Floor(C2_Query).n)
                /\ \A i \in 0..Floor(C2_Query).n : C2_Pmf(IntV(i)) # FalseV)

C2_Witness ==
    /\ Returned("negbincdf")
    /\ ~IsInteger(args[3])
    /\ Lt(One, args[3])
    /\ Lt(Zero, out)
    /\ Lt(out, One)

(* C3: for valid parameters and every integer x >= 0, binomial, binomialcdf,
   negbin, negbincdf, hypgeom and hypgeomcdf return a number in [0,1], never
   NaN and never false. *)
C3_Valid ==
    /\ pc = "done"
    /\ IsInteger(args[Len(args)])
    /\ Le(Zero, args[Len(args)])
    /\ \/ fn \in {"binomial", "binomialcdf"} /\ InUnitInterval(args[2])
       \/ fn \in {"negbin", "negbincdf"} /\ Le(One, args[1]) /\ InUnitInterval(args[2])
       \/ fn \in {"hypgeom", "hypgeomcdf"} /\ Le(args[2], args[1]) /\ Le(args[3], args[1])

C3_ProbabilityInUnitInterval ==
    (fn \in {"binomial", "binomialcdf", "negbin", "negbincdf", "hypgeom", "hypgeomcdf"}
        /\ C3_Valid) => InUnitInterval(out)

(* C4: negbin and hypgeom return false, which is neither 0 nor NaN, for every
   x that differs from floor(x), negative or not, and call no combination. *)
C4_Case ==
    /\ pc = "done"
    /\ fn \in {"negbin", "hypgeom"}
    /\ ~LooseEq(args[Len(args)], Floor(args[Len(args)]))

C4_NonIntegerIsFalse ==
    C4_Case =>
        /\ out = FalseV
        /\ out # Zero
        /\ out # NaN
        /\ fn = "negbin" => negbinCombinations(args[1], args[2], args[3]) = 0
        /\ fn = "hypgeom" => hypgeomCombinations(args[1], args[2], args[3], args[4]) = 0

C4_Witness ==
    /\ C4_Case
    /\ fn = "negbin"
    /\ Lt(args[3], Zero)
    /\ out = FalseV

C6_GammaOfInteger ==
    (Returned("gamma") /\ IsInteger(args[1])) =>
        /\ stack = <<"gamma", "factorial">>
        /\ gammaIters = 0
        /\ Le(One, args[1]) => (out = factorial(Sub(args[1], One)) /\ IsInteger(out))
        /\ Le(args[1], Zero) => out = NaN

C6_Witness ==
    /\ Returned("gamma")
    /\ args[1] = IntV(5)
    /\ out = IntV(24)

(* C7: for integers 0 <= k <= n, combination(n, k) = combination(n, n-k) and
   permutation(n, k) = combination(n, k) * factorial(k). *)
C7_Case ==
    /\ Returned("combination")
    /\ IsInteger(args[1])
    /\ IsInteger(args[2])
    /\ Le(Zero, args[2])
    /\ Le(args[2], args[1])

C7_CombinationSymmetry ==
    C7_Case =>
        /\ out = combination(args[1], Sub(args[1], args[2]))
        /\ permutation(args[1], args[2]) = Mul(out, factorial(args[2]))

C7_Witness ==
    /\ C7_Case
    /\ args = <<IntV(4), IntV(1)>>
    /\ out = IntV(4)

(* C8, as claimed: uniformcdf(a, b, x) with a == b divides by zero and
   returns infinity or NaN, for every x. *)
C8_Case == Returned("uniformcdf") /\ LooseEq(args[1], args[2])

C8_DegenerateDivides ==
    C8_Case =>
        /\ uniformcdfDivisions(args[1], args[2], args[3]) = 1
        /\ out.k \in {"inf", "nan"}

(* C8, amended: uniformcdf(a, b, x) with a == b never divides: it returns 0
   when x < a and 1 otherwise, never infinity and never NaN. *)
C8_DegenerateIsStep ==
    C8_Case =>
        /\ uniformcdfDivisions(args[1], args[2], args[3]) = 0
        /\ out = IF Lt(args[3], args[1]) THEN Zero ELSE One

C8_Witness ==
    /\ C8_Case
    /\ args[3] = args[1]
    /\ out = One

(* C9: factorial and gamma terminate for every finite argument; neither is
   entered twice in a call; factorial's loop runs n times for an integer
   n >= 0; gamma's loop runs ceil(8 - x) times for a non-integer x < 8 and
   leaves 8 <= x < 9. *)
C9_GammaEntered == stack \in {<<"gamma">>, <<"factorial", "gamma">>}

\* the argument gamma is entered with
C9_GammaArg == IF fn = "gamma" THEN args[1] ELSE Add(args[1], One)

C9_Safety ==
    /\ stack \in {<<>>, <<"factorial">>, <<"gamma">>,
                  <<"factorial", "gamma">>, <<"gamma", "factorial">>}
    /\ (Returned("factorial") /\ IsInteger(args[1]) /\ Le(Zero, args[1])) =>
            factIters = args[1].n
    /\ (pc = "done" /\ C9_GammaEntered /\ Lt(C9_GammaArg, Eight)) =>
            /\ gammaIters = Ceil(Sub(Eight, C9_GammaArg)).n
            /\ Le(Eight, g_x)
            /\ Lt(g_x, IntV(GammaThreshold + 1))

C9_Running == pc \notin {"idle", "done"}

Occurrences(arr, e) == Cardinality({i \in 1..Len(arr) : arr[i] = e})

MostFrequent(arr) ==
    {arr[i] : i \in {j \in 1..Len(arr) :
        \A h \in 1..Len(arr) : Occurrences(arr, arr[h]) <= Occurrences(arr, arr[j])}}

C10_ModeIsMostFrequent ==
    (Returned("mode") /\ Len(args[1]) > 0) =>
        /\ Cardinality(MostFrequent(args[1])) = 1 =>
                \E e \in MostFrequent(args[1]) : out = IntV(e)
        /\ Cardinality(MostFrequent(args[1])) > 1 => out = FalseV

====
